---- MODULE Spec2Model ----
(***************************************************************************)
(* The README-banner asset scripts.                                        *)
(*                                                                         *)
(*   embed_assets.py   main(): parse new_readme.svg, replace every         *)
(*                     <image xlink:href="./assets/..."> by a Base64 data  *)
(*                     URI (.png/.gif) or by the inlined markup of the     *)
(*                     referenced .svg, write new_readme_embedded.svg.     *)
(*   update_assets.py  main(): fetch every URL/local-path pair found in    *)
(*                     the SVG text and save it under ./assets/.           *)
(*                                                                         *)
(* Text is modelled as a sequence of tokens, each token a literal piece    *)
(* of the text; the text is the concatenation of its tokens.  A prefix or  *)
(* suffix test on the text is the same test on the tokens because every    *)
(* text used below is cut at the places the tests look at ("./assets/",    *)
(* the extension).                                                         *)
(***************************************************************************)
EXTENDS Integers, Sequences, FiniteSets, TLC

\* ------------------------------------------------------------------ bounds

\* Number of <image> elements of the host document.
MaxImages == 2

\* Number of times the embedder is run in a row, each run on the output of
\* the run before.
MaxRuns == 2

\* Number of URL/local-path pairs the refresher discovers.
MaxPairs == 3

\* ------------------------------------------------------- Python's values

\* Python's None and a str value: an attribute lookup gives one or the other.
None == [has |-> FALSE, val |-> <<>>]

Str(s) == [has |-> TRUE, val |-> s]

\* Python truthiness of an optional string: None and "" are false.
Truthy(v) == v.has /\ v.val # <<>>

\* str.startswith / str.endswith
StartsWith(s, p) == Len(s) >= Len(p) /\ SubSeq(s, 1, Len(p)) = p

EndsWith(s, p) == Len(s) >= Len(p) /\ SubSeq(s, Len(s) - Len(p) + 1, Len(s)) = p

Range(s) == {s[i] : i \in 1..Len(s)}

\* ------------------------------------------------------------------ paths

AssetsPrefix == <<".", "/", "assets", "/">>

P_logo == AssetsPrefix \o <<"logo", ".png">>

P_anim == AssetsPrefix \o <<"anim", ".gif">>

P_gonePng == AssetsPrefix \o <<"gone", ".png">>

P_lockedPng == AssetsPrefix \o <<"locked", ".png">>

\* a file whose whole name is ".png": posixpath.splitext gives it no extension
P_dotPng == AssetsPrefix \o <<".png">>

\* leaves the assets directory through ".."
P_escape == AssetsPrefix \o <<"..", "/", "secret", ".png">>

\* a sibling directory whose name starts with "assets"
P_sibling == <<".", "/", "assets", "_old", "/", "logo", ".png">>

P_notes == AssetsPrefix \o <<"notes", ".txt">>

P_icon == AssetsPrefix \o <<"icon", ".svg">>

P_badge == AssetsPrefix \o <<"badge", ".svg">>

P_brokenSvg == AssetsPrefix \o <<"broken", ".svg">>

P_goneSvg == AssetsPrefix \o <<"gone", ".svg">>

P_lockedSvg == AssetsPrefix \o <<"locked", ".svg">>

P_http == <<"https://", "example.org", "/", "logo", ".png">>

\* ---------------------------------------------------------- the file system

\* What open(path, "rb") / ET.parse(path) meets for each path: "ok" (readable),
\* "missing" (FileNotFoundError) or "unreadable" (PermissionError, another OSError).
FileStatus(path) ==
    CASE path \in {P_gonePng, P_goneSvg} -> "missing"
      [] path \in {P_lockedPng, P_lockedSvg} -> "unreadable"
      [] path \in {P_logo, P_anim, P_dotPng, P_escape, P_sibling, P_notes,
                   P_icon, P_badge, P_brokenSvg} -> "ok"
      [] OTHER -> "missing"

\* The bytes f.read() returns.
FileBytes(path) ==
    CASE path = P_logo -> <<137, 80, 78, 71, 13, 10, 26, 10, 0, 255>>
      [] path = P_anim -> <<71, 73, 70, 56, 57, 97>>
      [] path = P_escape -> <<255, 0>>
      [] path = P_dotPng -> <<1>>
      [] OTHER -> <<>>

\* Whether the file is well-formed XML (ET.parse raises ParseError otherwise).
WellFormed(path) == path \in {P_icon, P_badge}

\* ------------------------------------------------------------- mimetypes

\* os.path.basename: the tokens after the last "/".
RECURSIVE Basename(_)
Basename(path) ==
    IF \E i \in 1..Len(path) : path[i] = "/"
    THEN Basename(Tail(path))
    ELSE path

ExtTokens == {".png", ".gif", ".svg", ".txt"}

\* posixpath.splitext(path)[1]: the extension, "" when the name has none or is
\* nothing but a leading-dot name.
Splitext(path) ==
    LET base == Basename(path) IN
    IF Len(base) >= 2 /\ base[Len(base)] \in ExtTokens
    THEN base[Len(base)]
    ELSE ""

\* mimetypes.types_map
TypesMap(ext) ==
    CASE ext = ".png" -> Str(<<"image/png">>)
      [] ext = ".gif" -> Str(<<"image/gif">>)
      [] ext = ".svg" -> Str(<<"image/svg+xml">>)
      [] ext = ".txt" -> Str(<<"text/plain">>)
      [] OTHER -> None

\* mimetypes.guess_type(path)[0]
GuessType(path) == TypesMap(Splitext(path))

\* ---------------------------------------------------------------- base64

B64Alphabet ==
    <<"A","B","C","D","E","F","G","H","I","J","K","L","M","N","O","P",
      "Q","R","S","T","U","V","W","X","Y","Z","a","b","c","d","e","f",
      "g","h","i","j","k","l","m","n","o","p","q","r","s","t","u","v",
      "w","x","y","z","0","1","2","3","4","5","6","7","8","9","+","/">>

B64Char(v) == B64Alphabet[v + 1]

\* Mutant of B64Encode: the "=" padding of a short last group is left out.
RECURSIVE B64EncodeNoPad(_)
B64EncodeNoPad(bs) ==
    IF Len(bs) = 0 THEN <<>>
    ELSE IF Len(bs) = 1 THEN
        <<B64Char(bs[1] \div 4), B64Char((bs[1] % 4) * 16)>>
    ELSE IF Len(bs) = 2 THEN
        <<B64Char(bs[1] \div 4),
          B64Char((bs[1] % 4) * 16 + bs[2] \div 16),
          B64Char((bs[2] % 16) * 4)>>
    ELSE
        <<B64Char(bs[1] \div 4),
          B64Char((bs[1] % 4) * 16 + bs[2] \div 16),
          B64Char((bs[2] % 16) * 4 + bs[3] \div 64),
          B64Char(bs[3] % 64)>>
        \o B64EncodeNoPad(SubSeq(bs, 4, Len(bs)))

\* base64.b64encode(bytes).decode("utf-8"): three bytes give four characters,
\* a last group of one or two bytes is padded with "=".
RECURSIVE B64Encode(_)
B64Encode(bs) ==
    IF Len(bs) = 0 THEN <<>>
    ELSE IF Len(bs) = 1 THEN
        <<B64Char(bs[1] \div 4), B64Char((bs[1] % 4) * 16), "=", "=">>
    ELSE IF Len(bs) = 2 THEN
        <<B64Char(bs[1] \div 4),
          B64Char((bs[1] % 4) * 16 + bs[2] \div 16),
          B64Char((bs[2] % 16) * 4), "=">>
    ELSE
        <<B64Char(bs[1] \div 4),
          B64Char((bs[1] % 4) * 16 + bs[2] \div 16),
          B64Char((bs[2] % 16) * 4 + bs[3] \div 64),
          B64Char(bs[3] % 64)>>
        \o B64Encode(SubSeq(bs, 4, Len(bs)))

\* ------------------------------------------------------- create_data_uri

\* create_data_uri(file_path): the data URI, or None with the message printed.
create_data_uri(file_path) ==
    LET mime_type == GuessType(file_path) IN
    IF ~Truthy(mime_type)
    THEN [uri |-> None, msg |-> "Warning: Could not determine MIME type"]
    ELSE IF FileStatus(file_path) = "missing"
    THEN [uri |-> None, msg |-> "Warning: Asset file not found"]
    ELSE IF FileStatus(file_path) # "ok"
    THEN [uri |-> None, msg |-> "Error processing"]
    ELSE [uri |-> Str(<<"data:">> \o mime_type.val \o <<";base64,">>
                      \o B64Encode(FileBytes(file_path))),
          msg |-> "Embedded as Base64 Data URI"]

\* ------------------------------------------------------------ the XML tree

SvgNs == "http://www.w3.org/2000/svg"

\* An ElementTree tag "{ns}name"; ns = "" is a tag without a namespace.
Tag(ns, name) == [ns |-> ns, name |-> name]

\* The attributes the scripts read or write; None is an absent attribute.
\* href is {http://www.w3.org/1999/xlink}href.
Attrs(href, x, y, width, height, transform) ==
    [href |-> href, x |-> x, y |-> y, width |-> width, height |-> height,
     transform |-> transform]

NoAttrs == Attrs(None, None, None, None, None, None)

\* Element identities.
Root == <<"root", 0>>

G1 == <<"g", 1>>

G2 == <<"g", 2>>

Img(i) == <<"image", i>>

\* The elements ET.parse(file_path) creates for the asset an image refers to:
\* a fresh root and its child per parse.
AssetRoot(img) == <<"asset", img[2]>>

AssetKid(img) == <<"assetkid", img[2]>>

\* A tree: each element's tag, attributes and list of children.  An element
\* that was removed from its parent stays in tag and attrs (the Python object
\* lives on) and is in no list of children.
EmptyTree == [tag |-> <<>>, attrs |-> <<>>, children |-> <<>>]

\* Element.iter(): the element and its descendants in document order.
RECURSIVE Iter(_, _)
RECURSIVE IterAll(_, _)
Iter(t, n) == <<n>> \o IterAll(t, t.children[n])

IterAll(t, ns) ==
    IF ns = <<>> THEN <<>> ELSE Iter(t, Head(ns)) \o IterAll(t, Tail(ns))

\* root.findall(".//svg:image", namespaces): the descendants of the root whose
\* tag is {svg}image, in document order.
FindAllImages(t) ==
    SelectSeq(IterAll(t, t.children[Root]),
              LAMBDA n : t.tag[n] = Tag(SvgNs, "image"))

\* Mutant of ParentMap: {c: p for p in root.iter() for c in p.iter()}, which
\* leaves every element recorded as its own parent.
ParentMapSelf(t) == [c \in Range(Iter(t, Root)) |-> c]

\* {c: p for p in root.iter() for c in p}
ParentMap(t) ==
    LET elems == Range(Iter(t, Root))
        kids == UNION {Range(t.children[p]) : p \in elems}
    IN [c \in kids |-> CHOOSE p \in elems : c \in Range(t.children[p])]

\* ------------------------------------------------------- the asset files

\* The document ET.parse(path) builds from a well-formed asset file: a root
\* element and one child.
AssetXml(path) ==
    IF path = P_badge
    THEN [root |-> [tag |-> Tag(SvgNs, "svg"),
                    attrs |-> Attrs(None, None, None, Str(<<"64">>), Str(<<"64">>), None)],
          kid |-> [tag |-> Tag(SvgNs, "image"),
                   attrs |-> Attrs(Str(P_logo), Str(<<"1">>), Str(<<"1">>), None, None, None)]]
    ELSE [root |-> [tag |-> Tag(SvgNs, "svg"),
                    attrs |-> Attrs(None, None, None, Str(<<"64">>), Str(<<"64">>), None)],
          kid |-> [tag |-> Tag(SvgNs, "path"), attrs |-> NoAttrs]]

\* elem.tag.split("}", 1)[1] for a tag with a namespace: the bare name.
StripNamespace(tag) == IF tag.ns # "" THEN Tag("", tag.name) ELSE tag

\* ----------------------------------------------------- the host document

\* One <image> element of the host document: its container and attributes.
Placement(parent, attrs) == [parent |-> parent, attrs |-> attrs]

Full(path) ==
    Attrs(Str(path), Str(<<"5">>), Str(<<"10">>), Str(<<"20">>), Str(<<"20">>), None)

Placements ==
    {
      \* vector references
      Placement(G1, Full(P_icon)),
      Placement(G2, Full(P_icon)),
      Placement(Root, Full(P_icon)),
      Placement(G1, Attrs(Str(P_icon), None, None, None, None, None)),
      Placement(G2, Attrs(Str(P_icon), Str(<<"7">>), None, None, Str(<<"20">>), None)),
      Placement(G1, Attrs(Str(P_badge), Str(<<"1">>), Str(<<"2">>), Str(<<>>), None, None)),
      Placement(G1, Full(P_brokenSvg)),
      Placement(G1, Full(P_goneSvg)),
      Placement(G1, Full(P_lockedSvg)),
      \* raster references
      Placement(G1, Full(P_logo)),
      Placement(Root, Full(P_logo)),
      Placement(G1, Full(P_anim)),
      Placement(G1, Full(P_gonePng)),
      Placement(G1, Full(P_lockedPng)),
      Placement(G1, Full(P_dotPng)),
      Placement(G1, Full(P_escape)),
      \* references the prefix test rejects, and other extensions
      Placement(G1, Full(P_sibling)),
      Placement(G1, Full(P_http)),
      Placement(G1, Full(P_notes)),
      Placement(G1, Full(<<>>)),
      Placement(G1, Attrs(None, Str(<<"5">>), Str(<<"10">>), None, None, None)),
      Placement(G1, Full(create_data_uri(P_logo).uri.val))
    }

\* The images of imgs (a sequence of placements) whose container is p.
ImagesIn(imgs, p) ==
    LET idx == SelectSeq([i \in 1..Len(imgs) |-> i],
                         LAMBDA i : imgs[i].parent = p)
    IN [k \in 1..Len(idx) |-> Img(idx[k])]

\* <svg> <g> images </g> <g transform="scale(2)"> images </g> images </svg>
HostDoc(imgs) ==
    LET imageElems == {Img(i) : i \in 1..Len(imgs)}
        elems == {Root, G1, G2} \cup imageElems
    IN [tag |-> [n \in elems |->
                    IF n = Root THEN Tag(SvgNs, "svg")
                    ELSE IF n \in {G1, G2} THEN Tag(SvgNs, "g")
                    ELSE Tag(SvgNs, "image")],
        attrs |-> [n \in elems |->
                    IF n = Root THEN NoAttrs
                    ELSE IF n = G1 THEN NoAttrs
                    ELSE IF n = G2
                    THEN Attrs(None, None, None, None, None, Str(<<"scale(2)">>))
                    ELSE imgs[n[2]].attrs],
        children |-> [n \in elems |->
                    IF n = Root THEN <<G1, G2>> \o ImagesIn(imgs, Root)
                    ELSE IF n \in {G1, G2} THEN ImagesIn(imgs, n)
                    ELSE <<>>]]

\* ------------------------------------------------- one image of the loop

\* image_element.get("x", "0")
GetOr(v, default) == IF v.has THEN v.val ELSE default

\* f"translate({x}, {y})"
Translate(x, y) == <<"translate(">> \o x \o <<", ">> \o y \o <<")">>

\* Mutant of Qualifies: any non-empty href is let through.
QualifiesAnyHref(file_path) == Truthy(file_path)

\* Mutant of Qualifies: the prefix is tested without its closing "/".
QualifiesNoSlash(file_path) ==
    Truthy(file_path) /\ StartsWith(file_path.val, <<".", "/", "assets">>)

\* The test of line 62 that lets an image through to the embedding code.
Qualifies(file_path) ==
    Truthy(file_path) /\ StartsWith(file_path.val, AssetsPrefix)

IsRaster(path) == EndsWith(path, <<".png">>) \/ EndsWith(path, <<".gif">>)

IsVector(path) == EndsWith(path, <<".svg">>)

\* list.remove of the first occurrence, as Element.remove does.
RECURSIVE RemoveFirst(_, _)
RemoveFirst(s, e) ==
    IF s = <<>> THEN <<>>
    ELSE IF Head(s) = e THEN Tail(s)
    ELSE <<Head(s)>> \o RemoveFirst(Tail(s), e)

\* The tree with the href of an image set to the data URI (line 71).
SetHref(t, img, uri) == [t EXCEPT !.attrs[img].href = uri]

\* parent_g_element.set("transform", ...) (line 103)
SetTransform(t, parent, img) ==
    [t EXCEPT !.attrs[parent].transform =
        Str(Translate(GetOr(t.attrs[img].x, <<"0">>),
                      GetOr(t.attrs[img].y, <<"0">>)))]

\* The asset's root as lines 92-94 and 106-109 leave it: tags without
\* namespace, width and height of the image copied when they are non-empty.
InlinedRootAttrs(t, img, asset) ==
    [asset.root.attrs EXCEPT
        !.width = IF Truthy(t.attrs[img].width) THEN t.attrs[img].width ELSE @,
        !.height = IF Truthy(t.attrs[img].height) THEN t.attrs[img].height ELSE @]

\* parent_g_element.remove(image_element); parent_g_element.append(asset_root)
\* (lines 112 and 115), with the asset's elements now part of the tree.
ReplaceByAsset(t, parent, img, asset) ==
    LET new == {AssetRoot(img), AssetKid(img)}
        elems == DOMAIN t.tag \cup new
    IN [tag |-> [n \in elems |->
                    IF n = AssetRoot(img) THEN StripNamespace(asset.root.tag)
                    ELSE IF n = AssetKid(img) THEN StripNamespace(asset.kid.tag)
                    ELSE t.tag[n]],
        attrs |-> [n \in elems |->
                    IF n = AssetRoot(img) THEN InlinedRootAttrs(t, img, asset)
                    ELSE IF n = AssetKid(img) THEN asset.kid.attrs
                    ELSE t.attrs[n]],
        children |-> [n \in elems |->
                    IF n = parent
                    THEN RemoveFirst(t.children[parent], img) \o <<AssetRoot(img)>>
                    ELSE IF n = AssetRoot(img) THEN <<AssetKid(img)>>
                    ELSE IF n = AssetKid(img) THEN <<>>
                    ELSE t.children[n]]]

Result(t, outcome, msgs) == [tree |-> t, outcome |-> outcome, msgs |-> msgs]

\* The .svg branch (lines 75-121) for an image whose parent is a <g>.
InlineVector(t, parent, img, path) ==
    IF FileStatus(path) = "missing"
    THEN Result(t, "vector_failed",
                <<"Processing", "Warning: Asset file not found">>)
    ELSE IF FileStatus(path) # "ok"
    THEN \* PermissionError, IsADirectoryError: no except clause catches them
         Result(t, "crash_read", <<"Processing">>)
    ELSE IF ~WellFormed(path)
    THEN Result(t, "vector_failed", <<"Processing", "Error parsing asset SVG">>)
    ELSE IF img \notin Range(t.children[parent])
    THEN \* Element.remove raises ValueError after the transform was set
         Result(SetTransform(t, parent, img), "crash_remove", <<"Processing">>)
    ELSE Result(ReplaceByAsset(SetTransform(t, parent, img), parent, img,
                               AssetXml(path)),
                "inlined", <<"Processing", "Inlined content with transform">>)

\* The body of the for loop (lines 58-121) for one image: the tree it leaves,
\* what happened, and the lines it prints.
ProcessImage(t, pm, img) ==
    LET file_path == t.attrs[img].href IN
    IF ~Qualifies(file_path)
    THEN Result(t, "skip", <<>>)
    ELSE IF IsRaster(file_path.val)
    THEN LET r == create_data_uri(file_path.val) IN
         IF Truthy(r.uri)
         THEN Result(SetHref(t, img, r.uri), "embedded",
                     <<"Processing", r.msg>>)
         ELSE Result(t, "raster_failed", <<"Processing", r.msg>>)
    ELSE IF IsVector(file_path.val)
    THEN IF img \notin DOMAIN pm \/ t.tag[pm[img]] # Tag(SvgNs, "g")
         THEN Result(t, "not_in_g",
                     <<"Processing", "Warning: SVG asset is not inside a <g> tag">>)
         ELSE InlineVector(t, pm[img], img, file_path.val)
    ELSE Result(t, "other", <<"Processing">>)

Crashes == {"crash_read", "crash_remove"}

\* -------------------------------------------------------------- the state

VARIABLES
    pc,           \* embedder: "idle", "start", "loop", "written", "fatal", "crashed"
    srcStatus,    \* new_readme.svg: "ok", "missing" or "unparsable"
    source,       \* the document new_readme.svg holds
    tree,         \* the parsed tree, mutated in place
    images_to_process,  \* images_to_process (line 53)
    parent_map,   \* parent_map
    idx,          \* position of the for loop in images_to_process (1-based)
    log,          \* what was printed: <<element, line>> pairs
    visited,      \* the elements the loop body has run for, in order
    output,       \* the document written to new_readme_embedded.svg
    run,          \* number of the current run of the embedder
    rpc,          \* refresher: "idle", "start", "loop", "done"
    svgPresent,   \* SVG_FILE.is_file()
    matches,      \* pattern.findall(content): <<url, local path>> pairs
    ri,           \* position of the refresher's for loop (1-based)
    success_count,
    attempts,     \* the fetches made: [pair |-> index, result |-> ...]
    report        \* the final line printed by the refresher

evars == <<pc, srcStatus, source, tree, images_to_process, parent_map, idx, log, visited,
           output, run>>

rvars == <<rpc, svgPresent, matches, ri, success_count, attempts, report>>

vars == <<evars, rvars>>

\* ------------------------------------------------- embed_assets.py main()

Printed(img, msgs) == [k \in 1..Len(msgs) |-> <<img, msgs[k]>>]

\* tree.write(output_svg_path, ...): the elements reachable from the root.
Serialize(t) ==
    LET elems == Range(Iter(t, Root))
    IN [tag |-> [n \in elems |-> t.tag[n]],
        attrs |-> [n \in elems |-> t.attrs[n]],
        children |-> [n \in elems |-> t.children[n]]]

\* ET.parse of a file written by Serialize: an element written without a
\* namespace prefix is read back in the default namespace declared on the root.
Reparse(doc) ==
    [doc EXCEPT !.tag = [n \in DOMAIN doc.tag |->
                            IF doc.tag[n].ns = "" THEN Tag(SvgNs, doc.tag[n].name)
                            ELSE doc.tag[n]]]

EIdle ==
    /\ pc = "idle" /\ srcStatus = "ok" /\ source = EmptyTree /\ tree = EmptyTree
    /\ images_to_process = <<>> /\ parent_map = <<>> /\ idx = 1 /\ log = <<>>
    /\ visited = <<>> /\ output = EmptyTree /\ run = 1

EInit ==
    /\ pc = "start"
    /\ srcStatus \in {"ok", "missing", "unparsable"}
    /\ \E n \in 0..MaxImages : \E imgs \in [1..n -> Placements] :
            /\ srcStatus # "ok" => imgs = <<>>
            /\ source = HostDoc(imgs)
    /\ tree = EmptyTree
    /\ images_to_process = <<>>
    /\ parent_map = <<>>
    /\ idx = 1
    /\ log = <<>>
    /\ visited = <<>>
    /\ output = EmptyTree
    /\ run = 1

\* Lines 42-56 with the order in which the loop will take the images.
ParseInto(order) ==
    /\ tree' = source
    /\ images_to_process' = order
    /\ parent_map' = ParentMap(source)
    /\ idx' = 1
    /\ pc' = "loop"
    /\ UNCHANGED <<srcStatus, source, log, visited, output, run, rvars>>

\* Lines 42-56: parse, findall, parent map.
ParseMain ==
    /\ pc = "start"
    /\ srcStatus = "ok"
    /\ ParseInto(FindAllImages(source))

\* Lines 45-50: the main SVG is missing or is not XML.
ParseFails ==
    /\ pc = "start"
    /\ srcStatus # "ok"
    /\ pc' = "fatal"
    /\ log' = Append(log, <<Root, IF srcStatus = "missing"
                                  THEN "Error: Main SVG file not found"
                                  ELSE "Error parsing SVG file">>)
    /\ UNCHANGED <<srcStatus, source, tree, images_to_process, parent_map, idx, visited,
                   output, run, rvars>>

\* One iteration of the for loop whose outcome is one of outcomes.  An
\* uncaught exception ends the process before anything is written.
Step(outcomes) ==
    /\ pc = "loop"
    /\ idx <= Len(images_to_process)
    /\ LET r == ProcessImage(tree, parent_map, images_to_process[idx]) IN
        /\ r.outcome \in outcomes
        /\ tree' = r.tree
        /\ log' = log \o Printed(images_to_process[idx], r.msgs)
        /\ visited' = Append(visited, images_to_process[idx])
        /\ IF r.outcome \in Crashes
           THEN pc' = "crashed" /\ idx' = idx
           ELSE pc' = "loop" /\ idx' = idx + 1
    /\ UNCHANGED <<srcStatus, source, images_to_process, parent_map, output, run, rvars>>

SkipImage ==
    /\ pc = "loop"
    /\ Step({"skip"})

EmbedRaster ==
    /\ pc = "loop"
    /\ Step({"embedded"})

RasterSoftFail ==
    /\ pc = "loop"
    /\ Step({"raster_failed"})

VectorNotInG ==
    /\ pc = "loop"
    /\ Step({"not_in_g"})

InlineVectorAsset ==
    /\ pc = "loop"
    /\ Step({"inlined"})

VectorSoftFail ==
    /\ pc = "loop"
    /\ Step({"vector_failed"})

OtherExtension ==
    /\ pc = "loop"
    /\ Step({"other"})

UncaughtError ==
    /\ pc = "loop"
    /\ Step(Crashes)

\* Lines 123-125.
WriteOutput ==
    /\ pc = "loop"
    /\ idx > Len(images_to_process)
    /\ output' = Serialize(tree)
    /\ log' = Append(log, <<Root, "Processing complete">>)
    /\ pc' = "written"
    /\ UNCHANGED <<srcStatus, source, tree, images_to_process, parent_map, idx, visited,
                   run, rvars>>

\* The embedder is started again on the document it wrote.
Rerun ==
    /\ pc = "written"
    /\ run < MaxRuns
    /\ source' = Reparse(output)
    /\ srcStatus' = "ok"
    /\ run' = run + 1
    /\ pc' = "start"
    /\ tree' = EmptyTree
    /\ images_to_process' = <<>>
    /\ parent_map' = <<>>
    /\ idx' = 1
    /\ log' = <<>>
    /\ visited' = <<>>
    /\ output' = EmptyTree
    /\ UNCHANGED rvars

LoopBody ==
    \/ SkipImage
    \/ EmbedRaster
    \/ RasterSoftFail
    \/ VectorNotInG
    \/ InlineVectorAsset
    \/ VectorSoftFail
    \/ OtherExtension
    \/ UncaughtError

ENext == ParseMain \/ ParseFails \/ LoopBody \/ WriteOutput \/ Rerun

\* The same program with the loop taking the images in an arbitrary order.
Orders(s) ==
    {p \in [1..Len(s) -> Range(s)] : \A i, j \in 1..Len(s) : p[i] = p[j] => i = j}

ParseMainAnyOrder ==
    /\ pc = "start"
    /\ srcStatus = "ok"
    /\ \E order \in Orders(FindAllImages(source)) : ParseInto(order)

ENextAnyOrder ==
    ParseMainAnyOrder \/ ParseFails \/ LoopBody \/ WriteOutput \/ Rerun

\* ------------------------------------------------ update_assets.py main()

Pairs ==
    {<<"https://example.org/logo.png", P_logo>>,
     <<"https://example.org/icon.svg", P_icon>>}

\* What one call of fetch_and_save meets: success, requests.get raising,
\* raise_for_status raising, mkdir/open/write raising, anything else.
FetchResults == {"ok", "request_error", "bad_status", "io_error", "unexpected"}

\* Mutant of fetch_and_save: the failure paths return True as well.
fetch_and_save_AlwaysTrue(result) == TRUE

\* fetch_and_save's return value (lines 15-41).
fetch_and_save(result) == result = "ok"

NoReport == [line |-> "", success |-> 0, total |-> 0]

RIdle ==
    /\ rpc = "idle" /\ svgPresent = TRUE /\ matches = <<>> /\ ri = 1
    /\ success_count = 0 /\ attempts = <<>> /\ report = NoReport

RInit ==
    /\ rpc = "start"
    /\ svgPresent \in BOOLEAN
    /\ matches \in UNION {[1..n -> Pairs] : n \in 0..MaxPairs}
    /\ ~svgPresent => matches = <<>>
    /\ ri = 1
    /\ success_count = 0
    /\ attempts = <<>>
    /\ report = NoReport

\* Lines 48-50.
RNoFile ==
    /\ rpc = "start"
    /\ ~svgPresent
    /\ report' = [NoReport EXCEPT !.line = "Error: Source SVG file not found"]
    /\ rpc' = "done"
    /\ UNCHANGED <<svgPresent, matches, ri, success_count, attempts, evars>>

\* Lines 65-67.
RNoMatches ==
    /\ rpc = "start"
    /\ svgPresent
    /\ matches = <<>>
    /\ report' = [NoReport EXCEPT !.line = "No asset URLs found"]
    /\ rpc' = "done"
    /\ UNCHANGED <<svgPresent, matches, ri, success_count, attempts, evars>>

\* Lines 69-70.
RBegin ==
    /\ rpc = "start"
    /\ svgPresent
    /\ matches # <<>>
    /\ success_count' = 0
    /\ ri' = 1
    /\ rpc' = "loop"
    /\ UNCHANGED <<svgPresent, matches, attempts, report, evars>>

\* Lines 72-84: one iteration of the for loop.
Fetch ==
    /\ rpc = "loop"
    /\ ri <= Len(matches)
    /\ \E result \in FetchResults :
        /\ attempts' = Append(attempts, [pair |-> ri, result |-> result])
        /\ success_count' = IF fetch_and_save(result)
                            THEN success_count + 1 ELSE success_count
    /\ ri' = ri + 1
    /\ UNCHANGED <<rpc, svgPresent, matches, report, evars>>

\* Lines 86-88.
RFinish ==
    /\ rpc = "loop"
    /\ ri > Len(matches)
    /\ report' = [line |-> "Update complete", success |-> success_count,
                  total |-> Len(matches)]
    /\ rpc' = "done"
    /\ UNCHANGED <<svgPresent, matches, ri, success_count, attempts, evars>>

RNext == RNoFile \/ RNoMatches \/ RBegin \/ Fetch \/ RFinish

\* --------------------------------------------------------- specifications

Init ==
    /\ pc = "start"
    /\ EInit
    /\ RIdle

Spec == Init /\ [][ENext]_vars

SpecAnyOrder == Init /\ [][ENextAnyOrder]_vars

\* The refresher is one sequential process: a step that can be taken is taken.
InitRefresh ==
    /\ rpc = "start"
    /\ RInit
    /\ EIdle

SpecRefresh == InitRefresh /\ [][RNext]_vars /\ WF_vars(RNext)

\* ============================================================== the claims

\* The <image> elements of the document the current run was started on.
InputImages == Range(FindAllImages(source))

\* The href of a host element textually begins with "./assets/".
HasAssetPrefix(doc, n) ==
    doc.attrs[n].href.has /\ StartsWith(doc.attrs[n].href.val, AssetsPrefix)

\* The path an element of the input document refers to.
PathOf(n) == source.attrs[n].href.val

\* -- Base64 as RFC 4648 reads it back (decoding, independent of B64Encode) --

B64Value(c) ==
    IF \E i \in 1..Len(B64Alphabet) : B64Alphabet[i] = c
    THEN (CHOOSE i \in 1..Len(B64Alphabet) : B64Alphabet[i] = c) - 1
    ELSE -1

\* Groups of four characters; "=" only as the last one or two characters.
B64WellFormed(cs) ==
    /\ Len(cs) % 4 = 0
    /\ \A i \in 1..Len(cs) :
        \/ B64Value(cs[i]) >= 0
        \/ cs[i] = "=" /\ i >= Len(cs) - 1 /\ (i = Len(cs) - 1 => cs[Len(cs)] = "=")

RECURSIVE B64Decode(_)
B64Decode(cs) ==
    IF Len(cs) < 4 THEN <<>>
    ELSE LET a == B64Value(cs[1])
             b == B64Value(cs[2])
             c == B64Value(cs[3])
             d == B64Value(cs[4])
             rest == B64Decode(SubSeq(cs, 5, Len(cs)))
         IN IF cs[3] = "=" THEN <<a * 4 + b \div 16>>
            ELSE IF cs[4] = "=" THEN <<a * 4 + b \div 16, (b % 16) * 16 + c \div 4>>
            ELSE <<a * 4 + b \div 16, (b % 16) * 16 + c \div 4, (c % 4) * 64 + d>>
                 \o rest

\* v is the text data:<mime>;base64,<payload> and the payload is the Base64
\* form of exactly the bytes bs.
IsDataUriOf(v, mime, bs) ==
    /\ v.has
    /\ Len(v.val) >= 3
    /\ v.val[1] = "data:"
    /\ v.val[2] = mime
    /\ v.val[3] = ";base64,"
    /\ LET payload == SubSeq(v.val, 4, Len(v.val)) IN
        /\ B64WellFormed(payload)
        /\ Len(payload) = 4 * ((Len(bs) + 2) \div 3)
        /\ B64Decode(payload) = bs

MimeOfExtension(path) ==
    IF EndsWith(path, <<".png">>) THEN "image/png" ELSE "image/gif"

\* A raster reference that must be embedded: ./assets/ prefix, .png or .gif,
\* the file is there and readable, its MIME type is known.
RasterToEmbed(img) ==
    /\ HasAssetPrefix(source, img)
    /\ IsRaster(PathOf(img))
    /\ FileStatus(PathOf(img)) = "ok"
    /\ Truthy(GuessType(PathOf(img)))

\* C1: in the written output every such raster reference has the href
\* data:<mime>;base64,<b64(bytes of the file)>, mime being the type of the
\* extension, and all its other attributes are those of the input.
C1_RasterEmbedded ==
    pc = "written" =>
        \A img \in InputImages :
            RasterToEmbed(img) =>
                /\ img \in DOMAIN output.attrs
                /\ IsDataUriOf(output.attrs[img].href,
                               MimeOfExtension(PathOf(img)),
                               FileBytes(PathOf(img)))
                /\ [output.attrs[img] EXCEPT !.href = source.attrs[img].href]
                       = source.attrs[img]

\* A run wrote its output with a .png and a .gif reference, both embedded.
C1_Witness ==
    /\ pc = "written"
    /\ \E i, j \in InputImages :
        /\ RasterToEmbed(i) /\ RasterToEmbed(j)
        /\ EndsWith(PathOf(i), <<".png">>) /\ EndsWith(PathOf(j), <<".gif">>)
        /\ output.attrs[i].href # source.attrs[i].href
        /\ output.attrs[j].href # source.attrs[j].href

\* A vector reference that must be inlined: ./assets/ prefix, .svg, directly
\* inside a <g>, the file is there, readable and well-formed.
VectorToInline(img) ==
    /\ HasAssetPrefix(source, img)
    /\ IsVector(PathOf(img))
    /\ img \in DOMAIN ParentMap(source)
    /\ source.tag[ParentMap(source)[img]] = Tag(SvgNs, "g")
    /\ FileStatus(PathOf(img)) = "ok"
    /\ WellFormed(PathOf(img))

\* C2: in the written output every such vector reference is gone from its
\* <g>, the asset's root is a child of that <g>, and the <g>'s transform is
\* translate(<x>, <y>) of that reference's own x and y (default "0").
C2_VectorInlined ==
    pc = "written" =>
        \A img \in InputImages :
            VectorToInline(img) =>
                LET g == ParentMap(source)[img] IN
                /\ img \notin Range(output.children[g])
                /\ AssetRoot(img) \in Range(output.children[g])
                /\ output.attrs[g].transform =
                       Str(<<"translate(">>
                           \o GetOr(source.attrs[img].x, <<"0">>)
                           \o <<", ">>
                           \o GetOr(source.attrs[img].y, <<"0">>)
                           \o <<")">>)

\* -- what a path resolves to --

\* The path cut at its "/" tokens: a sequence of names, each a token sequence.
RECURSIVE Components(_, _)
Components(path, name) ==
    IF path = <<>> THEN <<name>>
    ELSE IF Head(path) = "/" THEN <<name>> \o Components(Tail(path), <<>>)
    ELSE Components(Tail(path), Append(name, Head(path)))

\* os.path.normpath of a relative path: "." and empty names dropped, ".."
\* taking back the name before it.
RECURSIVE Normalize(_, _)
Normalize(names, done) ==
    IF names = <<>> THEN done
    ELSE IF Head(names) \in {<<".">>, <<>>} THEN Normalize(Tail(names), done)
    ELSE IF Head(names) = <<"..">> /\ done # <<>> /\ done[Len(done)] # <<"..">>
    THEN Normalize(Tail(names), SubSeq(done, 1, Len(done) - 1))
    ELSE Normalize(Tail(names), Append(done, Head(names)))

\* The path names a location inside the directory ./assets.
InsideAssets(path) ==
    LET n == Normalize(Components(path, <<>>), <<>>)
    IN Len(n) >= 2 /\ n[1] = <<"assets">>

\* The text of the path begins with the directory's name "./assets".
StartsWithAssetsName(path) == StartsWith(path, <<".", "/", "assets">>)

\* C3: an image whose href begins with the assets directory's name and does
\* not resolve to a location inside it is never embedded or inlined: the run
\* leaves the element as it was, a child of the parent it had.
C3_ContainmentCheck ==
    pc \in {"loop", "written", "crashed"} =>
        \A img \in InputImages :
            (/\ source.attrs[img].href.has
             /\ StartsWithAssetsName(PathOf(img))
             /\ ~InsideAssets(PathOf(img))) =>
                /\ tree.attrs[img] = source.attrs[img]
                /\ tree.tag[img] = source.tag[img]
                /\ img \in Range(tree.children[ParentMap(source)[img]])

\* C4: no per-asset failure ends the run: a run of the embedder whose main
\* document parsed is never ended by an exception before it wrote its output.
C4_NoAbort == pc # "crashed"

\* -- the failures of section 7: missing, unreadable, unparsable, unknown MIME
\* type, a .svg reference whose parent is not a <g> --
AssetFailure(img) ==
    /\ HasAssetPrefix(source, img)
    /\ \/ /\ IsRaster(PathOf(img))
          /\ \/ FileStatus(PathOf(img)) # "ok"
             \/ ~Truthy(GuessType(PathOf(img)))
       \/ /\ IsVector(PathOf(img))
          /\ \/ img \notin DOMAIN ParentMap(source)
             \/ source.tag[ParentMap(source)[img]] # Tag(SvgNs, "g")
             \/ FileStatus(PathOf(img)) # "ok"
             \/ ~WellFormed(PathOf(img))

Warnings ==
    {"Warning: Could not determine MIME type", "Warning: Asset file not found",
     "Error processing", "Warning: SVG asset is not inside a <g> tag",
     "Error parsing asset SVG"}

\* The loop body runs for img in this step.
Visits(img) == pc = "loop" /\ visited' = Append(visited, img)

\* C5: the step that meets a failure for a reference changes nothing in the
\* tree (no attribute of the reference or of its parent, no list of
\* children) and prints a warning for that reference.
C5_SoftFailureLeavesReference ==
    [][\A img \in InputImages :
          (Visits(img) /\ AssetFailure(img)) =>
              /\ tree' = tree
              /\ \E k \in 1..Len(log') :
                    k > Len(log) /\ log'[k][1] = img /\ log'[k][2] \in Warnings]_vars

\* -- the loop as a function of the order it takes the images in --

\* Lines 58-121 run over the images imgs from the tree t: the tree the loop
\* leaves and whether an uncaught exception ended it.
RECURSIVE RunLoop(_, _, _)
RunLoop(t, pm, imgs) ==
    IF imgs = <<>> THEN [tree |-> t, crashed |-> FALSE]
    ELSE LET r == ProcessImage(t, pm, Head(imgs)) IN
         IF r.outcome \in Crashes
         THEN [tree |-> r.tree, crashed |-> TRUE]
         ELSE RunLoop(r.tree, pm, Tail(imgs))

\* The document below element n as a term: tag, attributes and the terms of
\* the children in order.  Two trees are the same document when the terms of
\* their roots are equal, whatever the identities of their elements.
RECURSIVE Term(_, _)
RECURSIVE Terms(_, _)
Term(t, n) ==
    [tag |-> t.tag[n], attrs |-> t.attrs[n], kids |-> Terms(t, t.children[n])]

Terms(t, ns) ==
    IF ns = <<>> THEN <<>> ELSE <<Term(t, Head(ns))>> \o Terms(t, Tail(ns))

\* C6: whatever the order the loop takes the images in, the document written
\* (attributes of every element, children in order) is the one the loop
\* writes when it takes them in document order.
C6_OrderIndependent ==
    pc = "written" =>
        LET ref == RunLoop(source, ParentMap(source), FindAllImages(source))
        IN ~ref.crashed /\ Term(output, Root) = Term(ref.tree, Root)

\* No element of the document has an href beginning with "./assets/".
NoAssetReferences(doc) == \A n \in DOMAIN doc.tag : ~HasAssetPrefix(doc, n)

\* C7: a run on a document without asset-directory references changes no
\* element, attribute or list of children, and writes the tree it read.
C7_NoOpWithoutReferences ==
    (pc \in {"loop", "written", "crashed"} /\ NoAssetReferences(source)) =>
        /\ tree = source
        /\ pc # "crashed"
        /\ pc = "written" => output = source

\* A second run, on an output holding a data URI and an inlined asset, wrote
\* its output.
C7_Witness ==
    /\ pc = "written"
    /\ run = 2
    /\ NoAssetReferences(source)
    /\ \E n \in DOMAIN source.tag :
        source.attrs[n].href.has /\ StartsWith(source.attrs[n].href.val, <<"data:">>)
    /\ \E n \in DOMAIN source.tag : n[1] = "asset"

\* An <image> of the input whose href begins with "./assets/".
IsAssetReference(n) == source.tag[n] = Tag(SvgNs, "image") /\ HasAssetPrefix(source, n)

\* The container of a vector reference that is inlined.
IsInliningContainer(n) ==
    \E img \in Range(source.children[n]) : img \in InputImages /\ VectorToInline(img)

RECURSIVE Successes(_)
Successes(as) ==
    IF as = <<>> THEN 0
    ELSE (IF Head(as).result = "ok" THEN 1 ELSE 0) + Successes(Tail(as))

\* The fetches made so far are those of pairs 1..k, one each, in that order.
InDiscoveryOrder == \A k \in 1..Len(attempts) : attempts[k].pair = k

C9_Batch ==
    /\ InDiscoveryOrder
    /\ Len(attempts) <= Len(matches)
    /\ success_count = Successes(attempts)
    /\ (rpc = "done" /\ report.line = "Update complete") =>
        /\ Len(attempts) = Len(matches)
        /\ report.total = Len(matches)
        /\ report.success = Successes(attempts)
        /\ 0 <= report.success /\ report.success <= report.total

\* C9: every discovered pair is fetched exactly once, in discovery order, a
\* failed fetch stops nothing, the run ends, and the count reported is the
\* number of fetches that succeeded.
C9_RefresherBestEffort == []C9_Batch /\ <>(rpc = "done")

\* A batch ended whose first fetch failed and whose last succeeded.
C9_Witness ==
    /\ rpc = "done"
    /\ report.line = "Update complete"
    /\ Len(attempts) = MaxPairs
    /\ attempts[1].result # "ok"
    /\ attempts[Len(attempts)].result = "ok"
    /\ report.success < report.total

\* -- one pass --

NoDuplicates(s) == \A i, j \in 1..Len(s) : s[i] = s[j] => i = j

\* C10: the loop body runs at most once per image and only for images of the
\* input; the list of images and the parent map are those computed from the
\* input before the loop; an image not yet visited is still a child of the
\* parent the map records for it, so the removal of line 112 finds it.
C10_OnePass ==
    pc \in {"loop", "written", "crashed"} =>
        /\ NoDuplicates(visited)
        /\ Range(visited) \subseteq InputImages
        /\ \A v \in Range(visited) : v[1] \notin {"asset", "assetkid"} \/ run > 1
        /\ images_to_process = FindAllImages(source)
        /\ parent_map = ParentMap(source)
        /\ \A k \in 1..Len(images_to_process) :
            (k >= idx /\ pc = "loop") =>
                /\ images_to_process[k] \in DOMAIN parent_map
                /\ images_to_process[k] \in Range(tree.children[parent_map[images_to_process[k]]])
        /\ \A k \in 1..Len(images_to_process) :
            k < idx => images_to_process[k] = visited[k]
        /\ pc = "written" => visited = images_to_process

\* A first run wrote its output after inlining an asset that itself holds an
\* <image href="./assets/logo.png">, which the run did not visit.
C10_Witness ==
    /\ pc = "written"
    /\ run = 1
    /\ \E a \in DOMAIN output.tag :
        /\ a[1] = "assetkid"
        /\ output.tag[a].name = "image"
        /\ HasAssetPrefix(output, a)
        /\ a \notin Range(visited)

====
